---- MODULE Spec2Model ----
(***************************************************************************)
(* MoneyMaker: the paper-trading ledger (TraderService over the Firestore  *)
(* store), its wallet object and its trade gate.                           *)
(*                                                                         *)
(* Money, prices and quantities are Python floats in the source; they are  *)
(* modelled as exact rationals [n, d] in lowest terms, so a / p * p = a.   *)
(* Every store call of FirestoreClient is one atomic step that may fail;   *)
(* a coroutine can be interleaved with another only at such a step (an     *)
(* await).                                                                 *)
(***************************************************************************)
EXTENDS Integers, Sequences, FiniteSets, TLC

(* ------------------------------ bounds --------------------------------- *)
\* number of request handlers / pipeline runs that can be in flight
NumProcs == 2
\* total number of ledger and gate calls in one behaviour
MaxCalls == 3
\* number of operations applied to the in-memory Wallet object
MaxWalletOps == 3

Procs == 1..NumProcs
\* the caller of a pipeline that runs on a single thread of control
Main == 1

(* ------------------------- rational arithmetic ------------------------- *)
RECURSIVE GCD(_, _)
GCD(a, b) == IF b = 0 THEN a ELSE GCD(b, a % b)

Abs(x) == IF x < 0 THEN -x ELSE x

\* the rational n / d (d > 0) in lowest terms
R(n, d) == LET g == GCD(Abs(n), d) IN [n |-> n \div g, d |-> d \div g]

RatOf(i) == [n |-> i, d |-> 1]
Zero == RatOf(0)

RAdd(a, b) == R(a.n * b.d + b.n * a.d, a.d * b.d)
RSub(a, b) == R(a.n * b.d - b.n * a.d, a.d * b.d)
RMul(a, b) == R(a.n * b.n, a.d * b.d)
\* a / b for b > 0
RDiv(a, b) == R(a.n * b.d, a.d * b.n)
RLt(a, b) == a.n * b.d < b.n * a.d
RLe(a, b) == a.n * b.d <= b.n * a.d

(* --------------------------- configuration ----------------------------- *)
\* TradingConfig / WorkflowConfig values; the source defaults (10.0, 50.0,
\* 10, 1000.0) are overridable from YAML and the environment, the model
\* runs a small configuration of the same shape (min < max bet < initial).
min_balance_to_trade == 1
max_bet_amount == 2
max_positions == 2
initial_balance == 4

\* Settings.real_money_enabled / fake_money_enabled are feature flags
SettingsSet ==
    [real_money_enabled : BOOLEAN, fake_money_enabled : BOOLEAN]

Modes == {"real", "fake"}

(* ------------------------------ inputs --------------------------------- *)
Markets == {"m1"}
Outcomes == {"Yes"}
\* BuyOrderRequest.amount: gt 0
Amounts == {RatOf(1), RatOf(3), RatOf(5)}
\* BuyOrderRequest.price: gt 0, le 1
BuyPrices == {R(1, 2), R(3, 4)}
\* Position.current_price / Order.price: ge 0, le 1
SellPrices == {Zero, R(3, 4)}
\* balances the external (live) account may report
LiveBalances == {RatOf(0), RatOf(4)}
\* balances of an in-memory Wallet object
WalletBalances == {RatOf(0), RatOf(1), RatOf(2), RatOf(3), RatOf(4)}

(* ------------------------------- state --------------------------------- *)
VARIABLES
    settings,       \* Settings: the two mode flags
    wallet,         \* fake_wallets/default: the stored balance
    positions,      \* fake_positions: the set of stored position documents
    transactions,   \* fake_transactions: the log, in order of creation
    calls,          \* per caller: the frame of its call in TraderService
    nextId,         \* stands for uuid4(): the next fresh position id
    ncalls,         \* calls begun so far
    epoch,          \* history: the balance when the ledger was last quiet,
                    \* and the number of calls begun since
    lastBuy,        \* history: the last completed Buy, until another call begins
    w,              \* an in-memory Wallet object and the last call on it
    run,            \* the frame of the pipeline run, or of the Toggle, in
                    \* progress in the orchestrator
    wf,             \* workflow_state: one document per (workflow, mode)
    hist,           \* history: runs begun so far, and the last Toggle
    fn              \* the last call of a pure function: arguments and result

vars == <<settings, wallet, positions, transactions, calls, nextId, ncalls,
          epoch, lastBuy, w, run, wf, hist, fn>>

\* the state of the orchestrator, which no ledger call touches
pipe == <<run, wf, hist>>

\* no pure function called yet
NoCall == [name |-> "none"]

NoOrder == [status |-> "none", side |-> "none"]
NoPosition == [id |-> 0]
\* price: float | None; None means position.current_price
NoPrice == [n |-> 0, d |-> 0]
NoLedger == [wallet |-> Zero, positions |-> {}, transactions |-> <<>>]
NoBuy == [position_id |-> 0, price |-> NoPrice, pre |-> NoLedger]

Ledger == [wallet |-> wallet, positions |-> positions,
           transactions |-> transactions]

IdleCall ==
    [op |-> "none", pc |-> "idle", mode |-> "fake", market_id |-> "m1",
     outcome |-> "Yes", amount |-> Zero, price |-> Zero,
     position |-> NoPosition, quantity |-> Zero, proceeds |-> Zero,
     read |-> FALSE, balance |-> Zero, balance_before |-> Zero, npos |-> 0,
     result |-> NoOrder, can_trade |-> FALSE, reason |-> "",
     pre |-> NoLedger, roundtrip |-> NoBuy]

Running(p) == calls[p].pc \notin {"idle", "returned", "raised"}
Quiet == \A p \in Procs : ~Running(p)
Finished(p) == calls[p].pc \in {"returned", "raised"}

(* ------------------------- shared/models.py ---------------------------- *)
\* mutant: checks that the balance is not negative, not that it covers
\* the amount
can_afford_mut(balance, amount) == RLe(Zero, balance)

\* Wallet.can_afford
can_afford(balance, amount) == RLe(amount, balance)

\* mutant: a debit the wallet cannot cover takes what is there
deduct_mut(balance, amount) ==
    IF ~can_afford(balance, amount)
    THEN [ok |-> FALSE, balance |-> Zero]
    ELSE [ok |-> TRUE, balance |-> RSub(balance, amount)]

\* Wallet.deduct: (returned flag, balance afterwards)
deduct(balance, amount) ==
    IF ~can_afford(balance, amount)
    THEN [ok |-> FALSE, balance |-> balance]
    ELSE [ok |-> TRUE, balance |-> RSub(balance, amount)]

\* mutant: the credit is applied with the sign of a debit
add_mut(balance, amount) == RSub(balance, amount)

\* Wallet.add
add(balance, amount) == RAdd(balance, amount)

(* --------------------- shared/firestore_client.py ---------------------- *)
\* how one call of update_wallet_balance can end: the document update
\* raises; the update is applied and the read-back (get_wallet) raises; or
\* both succeed.  Either failure surfaces as FirestoreError.
UpdateOutcomes == {"ok", "update_failed", "readback_failed"}

\* update_wallet_balance: the stored balance afterwards
update_wallet_balance(outcome, new_balance) ==
    IF outcome = "update_failed" THEN wallet ELSE new_balance

\* create_transaction: the Transaction document it builds and stores
Transaction(tx_type, amount, balance_before, balance_after, reference_id) ==
    [type |-> tx_type, amount |-> amount, balance_before |-> balance_before,
     balance_after |-> balance_after, reference_id |-> reference_id]

\* delete_position: the stored documents afterwards; a failed delete is
\* logged and reported as False, never raised
delete_position(ok, position_id) ==
    IF ok THEN {x \in positions : x.id # position_id} ELSE positions

(* --------------------- services/trader/service.py ---------------------- *)
\* mutant: the amount is multiplied by the price
Quantity_mut(amount, price) ==
    IF RLt(Zero, price) THEN RMul(amount, price) ELSE Zero

\* place_buy_order: quantity = amount / price if price > 0 else 0
Quantity(amount, price) ==
    IF RLt(Zero, price) THEN RDiv(amount, price) ELSE Zero

\* place_sell_order: proceeds = price * position.quantity
Proceeds(price, position) == RMul(price, position.quantity)

\* reference_id: f"order-{market_id}" for a buy, position.id for a sell
Reference(kind, market_id, position_id) ==
    [kind |-> kind, market_id |-> market_id, position_id |-> position_id]

\* Order.id: "" by default, f"order-{position.id}", f"order-sell-{position.id}"
OrderId(kind, position_id) == [kind |-> kind, position_id |-> position_id]

Order(side, c, status, id, error_message) ==
    [side |-> side, market_id |-> c.market_id, outcome |-> c.outcome,
     price |-> c.price, quantity |-> c.quantity,
     total_value |-> IF side = "buy" THEN c.amount ELSE c.proceeds,
     status |-> status, mode |-> c.mode, id |-> id,
     error_message |-> error_message]

\* mutant: balance_after is taken from the stored wallet, as balance_before
BuyTransaction_mut(c) ==
    Transaction("buy", c.amount, c.balance_before, c.balance_before,
                Reference("order", c.market_id, 0))

\* the Transaction place_buy_order appends
BuyTransaction(c) ==
    Transaction("buy", c.amount, c.balance_before, c.balance,
                Reference("order", c.market_id, 0))

\* the Position place_buy_order creates, under the id create_position draws
BuyPosition(c, id) ==
    [id |-> id, market_id |-> c.market_id, outcome |-> c.outcome,
     entry_price |-> c.price, current_price |-> c.price,
     quantity |-> c.quantity, entry_value |-> c.amount,
     current_value |-> c.amount, mode |-> c.mode]

\* the Transaction place_sell_order appends
SellTransaction(c) ==
    Transaction("sell", c.proceeds, c.balance_before, c.balance,
                Reference("position", "", c.position.id))

\* a call begins: the frames of callers that already have their answer are
\* dropped, the history variables are advanced
Begin(p, frame) ==
    /\ ~Running(p)
    /\ ncalls < MaxCalls
    /\ ncalls' = ncalls + 1
    /\ calls' = [q \in Procs |->
                    IF q = p THEN [frame EXCEPT !.pre = Ledger]
                    ELSE IF Running(q) THEN calls[q] ELSE IdleCall]
    /\ epoch' = IF Quiet THEN [base |-> wallet, n |-> 1]
                ELSE [epoch EXCEPT !.n = @ + 1]
    /\ lastBuy' = NoBuy

Raise(p) == calls' = [calls EXCEPT ![p].pc = "raised"]

Return(p, order) ==
    calls' = [calls EXCEPT ![p].pc = "returned", ![p].result = order]

\* place_buy_order up to its first store write: the live branch, or the
\* wallet read, the affordability check and the in-memory deduct
BuyBegin(p, market_id, outcome, amount, price, mode) ==
    \E read_ok \in BOOLEAN :
        LET c0 == [IdleCall EXCEPT !.op = "buy", !.mode = mode,
                       !.market_id = market_id, !.outcome = outcome,
                       !.amount = amount, !.price = price,
                       !.quantity = Quantity(amount, price)]
            c1 == [c0 EXCEPT !.read = TRUE, !.balance = wallet,
                       !.balance_before = wallet]
            d == deduct(wallet, amount)
        IN  /\ Begin(p,
                 IF mode = "real"
                 \* client.place_order(..., amount=...) does not match the
                 \* signature place_order(market_id, outcome, side, price,
                 \* quantity): the call raises TypeError
                 THEN [c0 EXCEPT !.pc = "raised"]
                 ELSE IF ~read_ok THEN [c0 EXCEPT !.pc = "raised"]
                 ELSE IF ~can_afford(wallet, amount)
                 THEN [c1 EXCEPT !.pc = "returned",
                          !.result = Order("buy", c1, "failed", OrderId("", 0), "insufficient")]
                 ELSE IF ~d.ok
                 THEN [c1 EXCEPT !.pc = "returned",
                          !.result = Order("buy", c1, "failed", OrderId("", 0), "deduct")]
                 ELSE [c1 EXCEPT !.pc = "update_wallet", !.balance = d.balance])
            /\ (mode = "real" => read_ok)
            /\ UNCHANGED <<settings, wallet, positions, transactions, nextId, w, fn>>

\* place_buy_order: await update_wallet_balance("default", wallet.balance)
BuyUpdateWallet(p) ==
    /\ calls[p].op = "buy" /\ calls[p].pc = "update_wallet"
    /\ \E outcome \in UpdateOutcomes :
        /\ wallet' = update_wallet_balance(outcome, calls[p].balance)
        /\ calls' = [calls EXCEPT ![p].pc =
                        IF outcome = "ok" THEN "create_transaction" ELSE "raised"]
    /\ UNCHANGED <<settings, positions, transactions, nextId, ncalls, epoch,
                   lastBuy, w,
                   run, wf, hist, fn>>

\* place_buy_order: await create_transaction(... BUY ...)
BuyCreateTransaction(p) ==
    /\ calls[p].op = "buy" /\ calls[p].pc = "create_transaction"
    /\ \E ok \in BOOLEAN :
        IF ok
        THEN /\ transactions' = Append(transactions, BuyTransaction(calls[p]))
             /\ calls' = [calls EXCEPT ![p].pc = "create_position"]
        ELSE /\ Raise(p)
             /\ UNCHANGED transactions
    /\ UNCHANGED <<settings, wallet, positions, nextId, ncalls, epoch,
                   lastBuy, w,
                   run, wf, hist, fn>>

\* place_buy_order: await create_position(position), then the filled Order
BuyCreatePosition(p) ==
    /\ calls[p].op = "buy" /\ calls[p].pc = "create_position"
    /\ \E ok \in BOOLEAN :
        IF ok
        THEN /\ positions' = positions \cup {BuyPosition(calls[p], nextId)}
             /\ Return(p, Order("buy", calls[p], "filled",
                                OrderId("order", nextId), ""))
             /\ lastBuy' = [position_id |-> nextId, price |-> calls[p].price,
                            pre |-> calls[p].pre]
        ELSE /\ Raise(p)
             /\ UNCHANGED <<positions, lastBuy>>
    \* uuid4() is drawn before the write is attempted
    /\ nextId' = nextId + 1
    /\ UNCHANGED <<settings, wallet, transactions, ncalls, epoch, w,
                   run, wf, hist, fn>>

\* positions the external (live) account may report
LivePositions ==
    {[id |-> 100, market_id |-> "m1", outcome |-> "Yes",
      entry_price |-> R(1, 2), current_price |-> R(1, 2),
      quantity |-> RatOf(2), entry_value |-> RatOf(1),
      current_value |-> RatOf(1), mode |-> "real"]}

\* place_sell_order up to its first store write: the live branch, or the
\* wallet read and the in-memory add
SellBegin(p, position, price_arg) ==
    \E read_ok \in BOOLEAN :
        LET price == IF price_arg = NoPrice THEN position.current_price
                     ELSE price_arg
            c0 == [IdleCall EXCEPT !.op = "sell", !.mode = position.mode,
                       !.market_id = position.market_id,
                       !.outcome = position.outcome, !.price = price,
                       !.position = position,
                       !.quantity = position.quantity,
                       !.proceeds = Proceeds(price, position),
                       !.roundtrip =
                           IF /\ lastBuy.position_id = position.id
                              /\ lastBuy.price = price
                           THEN lastBuy ELSE NoBuy]
            c1 == [c0 EXCEPT !.read = TRUE, !.balance_before = wallet,
                       !.balance = add(wallet, c0.proceeds),
                       !.pc = "update_wallet"]
        IN  /\ Begin(p,
                 IF position.mode = "real"
                 \* client.place_order(..., amount=...): TypeError, as in
                 \* place_buy_order
                 THEN [c0 EXCEPT !.pc = "raised"]
                 ELSE IF ~read_ok THEN [c0 EXCEPT !.pc = "raised"]
                 ELSE c1)
            /\ (position.mode = "real" => read_ok)
            /\ UNCHANGED <<settings, wallet, positions, transactions, nextId, w, fn>>

\* place_sell_order: await update_wallet_balance("default", wallet.balance)
SellUpdateWallet(p) ==
    /\ calls[p].op = "sell" /\ calls[p].pc = "update_wallet"
    /\ \E outcome \in UpdateOutcomes :
        /\ wallet' = update_wallet_balance(outcome, calls[p].balance)
        /\ calls' = [calls EXCEPT ![p].pc =
                        IF outcome = "ok" THEN "create_transaction" ELSE "raised"]
    /\ UNCHANGED <<settings, positions, transactions, nextId, ncalls, epoch,
                   lastBuy, w,
                   run, wf, hist, fn>>

\* place_sell_order: await create_transaction(... SELL ...)
SellCreateTransaction(p) ==
    /\ calls[p].op = "sell" /\ calls[p].pc = "create_transaction"
    /\ \E ok \in BOOLEAN :
        IF ok
        THEN /\ transactions' = Append(transactions, SellTransaction(calls[p]))
             /\ calls' = [calls EXCEPT ![p].pc = "delete_position"]
        ELSE /\ Raise(p)
             /\ UNCHANGED transactions
    /\ UNCHANGED <<settings, wallet, positions, nextId, ncalls, epoch,
                   lastBuy, w,
                   run, wf, hist, fn>>

\* place_sell_order: await delete_position(position.id), whose result is
\* not looked at, then the filled Order
SellDeletePosition(p) ==
    /\ calls[p].op = "sell" /\ calls[p].pc = "delete_position"
    /\ \E ok \in BOOLEAN :
        positions' = delete_position(ok, calls[p].position.id)
    /\ Return(p, Order("sell", calls[p], "filled",
                       OrderId("order-sell", calls[p].position.id), ""))
    /\ UNCHANGED <<settings, wallet, transactions, nextId, ncalls, epoch,
                   lastBuy, w,
                   run, wf, hist, fn>>

\* can_trade, first part: "Check if mode is enabled"
gate_mode(s, mode) ==
    IF mode = "real" /\ ~s.real_money_enabled THEN "real_disabled"
    ELSE IF mode = "fake" /\ ~s.fake_money_enabled THEN "fake_disabled"
    ELSE "OK"

\* can_trade, second part: "Check balance" and "Check max bet amount"
gate_balance(balance, amount) ==
    IF RLt(balance, RatOf(min_balance_to_trade)) THEN "below_minimum"
    ELSE IF RLt(balance, amount) THEN "insufficient"
    ELSE IF RLt(RatOf(max_bet_amount), amount) THEN "exceeds_max_bet"
    ELSE "OK"

\* mutant: the limit itself is still allowed
gate_positions_mut(mode, npos) ==
    IF mode = "fake" /\ npos > max_positions THEN "max_positions" ELSE "OK"

\* can_trade, third part: "Check max positions (for fake mode)"
gate_positions(mode, npos) ==
    IF mode = "fake" /\ npos >= max_positions THEN "max_positions" ELSE "OK"

\* get_open_positions(mode): the stored documents of that mode
get_open_positions(mode) == {x \in positions : x.mode = mode}

\* can_trade up to and including get_balance: the flags, the balance read
\* (the stored wallet, or the live account) and the checks on it
CanTradeBegin(p, mode, amount) ==
    \E read_ok \in BOOLEAN :
    \E balance \in IF mode = "real" THEN LiveBalances ELSE {wallet} :
        LET c0 == [IdleCall EXCEPT !.op = "can_trade", !.mode = mode,
                       !.amount = amount]
            c1 == [c0 EXCEPT !.read = TRUE, !.balance = balance]
            gm == gate_mode(settings, mode)
            gb == gate_balance(balance, amount)
        IN  /\ Begin(p,
                 IF gm # "OK"
                 THEN [c0 EXCEPT !.pc = "returned", !.reason = gm]
                 ELSE IF ~read_ok THEN [c0 EXCEPT !.pc = "raised"]
                 ELSE IF gb # "OK"
                 THEN [c1 EXCEPT !.pc = "returned", !.reason = gb]
                 ELSE IF mode = "fake" THEN [c1 EXCEPT !.pc = "positions"]
                 ELSE [c1 EXCEPT !.pc = "returned", !.can_trade = TRUE,
                          !.reason = "OK"])
            \* no read is made for a disabled mode
            /\ (gm # "OK" => read_ok /\ \A b \in LiveBalances : RLe(balance, b))
            /\ UNCHANGED <<settings, wallet, positions, transactions, nextId, w, fn>>

\* can_trade in fake mode: await get_open_positions(mode) and the last check
CanTradePositions(p) ==
    /\ calls[p].op = "can_trade" /\ calls[p].pc = "positions"
    /\ \E read_ok \in BOOLEAN :
        LET npos == Cardinality(get_open_positions(calls[p].mode))
            gp == gate_positions(calls[p].mode, npos)
        IN  calls' = [calls EXCEPT
                ![p].pc = IF read_ok THEN "returned" ELSE "raised",
                ![p].npos = IF read_ok THEN npos ELSE @,
                ![p].can_trade = read_ok /\ gp = "OK",
                ![p].reason = IF read_ok THEN gp ELSE @]
    /\ UNCHANGED <<settings, wallet, positions, transactions, nextId, ncalls,
                   epoch, lastBuy, w,
                   run, wf, hist, fn>>

(* ------------------- the orchestrator and its pipelines ----------------- *)
\* bounds of the pipeline specifications
MaxRuns == 1
MaxToggles == 2
MaxAnalysis == 3

\* everything a pipeline step that is not a ledger call leaves alone
ledger == <<settings, wallet, positions, transactions, calls, nextId, ncalls,
            epoch, lastBuy, w, fn>>

\* configuration, scaled like the ledger's
max_suggestions == 2
confidence_threshold == R(7, 10)
stop_loss_percent == -15
take_profit_percent == 30
\* should_trade: max_position_percent: float = 0.1
max_position_percent == R(1, 10)
\* should_trade: "if position_size < 1.0"
min_position_size == 1
\* execute_suggestion: price = 0.5
execute_price == R(1, 2)

Workflows == {"discovery", "monitor"}
\* the document ids f"{workflow_id}_{mode.value}"
WfKeys == Workflows \X Modes

\* an entry of a result's errors; NoErr stands for None
Err(kind, detail, id) == [kind |-> kind, detail |-> detail, id |-> id]
NoErr == Err("none", "", 0)

\* a workflow_state document; NoState stands for "no document";
\* last_run 0 stands for None
NoState == [exists |-> FALSE, enabled |-> FALSE, run_count |-> 0,
            last_run |-> 0, last_error |-> NoErr]

WorkflowState(enabled) ==
    [exists |-> TRUE, enabled |-> enabled, run_count |-> 0, last_run |-> 0,
     last_error |-> NoErr]

\* mutant: the stored document is replaced by a fresh one
toggle_workflow_mut(state, enabled) == WorkflowState(enabled)

\* FirestoreClient.toggle_workflow, between its read and its write
toggle_workflow(state, enabled) ==
    IF ~state.exists THEN WorkflowState(enabled)
    ELSE [state EXCEPT !.enabled = enabled]

\* mutant: the run is counted after the pipeline as well
update_workflow_state_mut(state, running, last_error, now) ==
    LET s0 == IF state.exists THEN state ELSE WorkflowState(TRUE)
    IN  [s0 EXCEPT !.last_run = IF running THEN now ELSE @,
                   !.run_count = @ + 1,
                   !.last_error = last_error]

\* OrchestratorService._update_workflow_state, between its read and its
\* write: the document it stores
update_workflow_state(state, running, last_error, now) ==
    LET s0 == IF state.exists THEN state ELSE WorkflowState(TRUE)
        s1 == IF running
              THEN [s0 EXCEPT !.last_run = now, !.run_count = @ + 1]
              ELSE s0
    IN  [s1 EXCEPT !.last_error = last_error]

\* mutant: a failed state write is raised to the caller of the run
update_workflow_state_error_mut(ok) == IF ok THEN "stored" ELSE "raised"

\* _update_workflow_state: "except Exception" only logs a warning
update_workflow_state_error(ok) == IF ok THEN "stored" ELSE "logged"

\* an AISuggestion, as far as the pipeline reads it
Suggestion(confidence, size) ==
    [market_id |-> "m1", recommended_outcome |-> "Yes",
     confidence |-> confidence, suggested_position_size |-> size]

\* what the analysis may suggest: a trade of a tenth of the balance, and
\* one of a hundredth of it
Suggestions == {Suggestion(R(9, 10), R(1, 10)), Suggestion(R(4, 5), R(1, 100))}

RECURSIVE SeqsUpTo(_, _)
SeqsUpTo(S, n) ==
    IF n = 0 THEN {<<>>}
    ELSE LET shorter == SeqsUpTo(S, n - 1)
         IN  shorter \cup {Append(s, x) : s \in shorter, x \in S}

AnalysisLists == SeqsUpTo(Suggestions, MaxAnalysis)

\* sorted(..., key=confidence, reverse=True): a stable insertion of x
RECURSIVE InsertByConfidence(_, _)
InsertByConfidence(x, s) ==
    IF s = <<>> THEN <<x>>
    ELSE IF RLt(s[1].confidence, x.confidence) THEN <<x>> \o s
    ELSE <<s[1]>> \o InsertByConfidence(x, Tail(s))

RECURSIVE SortByConfidence(_)
SortByConfidence(s) ==
    IF s = <<>> THEN <<>>
    ELSE InsertByConfidence(s[Len(s)], SortByConfidence(SubSeq(s, 1, Len(s) - 1)))

Min(a, b) == IF a <= b THEN a ELSE b
RMin(a, b) == IF RLe(a, b) THEN a ELSE b

\* MarketAnalysis.get_top_suggestions(n)
get_top_suggestions(suggestions, n) ==
    SubSeq(SortByConfidence(suggestions), 1, Min(n, Len(suggestions)))

\* mutant: the size is checked before the balance
should_trade_mut(suggestion, wallet_balance) ==
    LET suggested_size == RMul(wallet_balance, suggestion.suggested_position_size)
        position_size ==
            RMin(suggested_size,
                 RMin(RatOf(max_bet_amount),
                      RMul(wallet_balance, max_position_percent)))
        No(reason) == [ok |-> FALSE, reason |-> reason, size |-> Zero]
    IN  IF RLt(suggestion.confidence, confidence_threshold)
        THEN No("confidence")
        ELSE IF RLt(position_size, RatOf(min_position_size))
        THEN No("too_small")
        ELSE IF RLt(wallet_balance, RatOf(min_balance_to_trade))
        THEN No("below_minimum")
        ELSE [ok |-> TRUE, reason |-> "Trade approved", size |-> position_size]

\* AISuggesterService.should_trade(suggestion, wallet_balance)
should_trade(suggestion, wallet_balance) ==
    LET suggested_size == RMul(wallet_balance, suggestion.suggested_position_size)
        position_size ==
            RMin(suggested_size,
                 RMin(RatOf(max_bet_amount),
                      RMul(wallet_balance, max_position_percent)))
        No(reason) == [ok |-> FALSE, reason |-> reason, size |-> Zero]
    IN  IF RLt(suggestion.confidence, confidence_threshold)
        THEN No("confidence")
        ELSE IF RLt(wallet_balance, RatOf(min_balance_to_trade))
        THEN No("below_minimum")
        ELSE IF RLt(position_size, RatOf(min_position_size))
        THEN No("too_small")
        ELSE [ok |-> TRUE, reason |-> "Trade approved", size |-> position_size]

\* Position.calculate_pnl()
calculate_pnl(position) ==
    IF position.entry_price = Zero THEN Zero
    ELSE RMul(RDiv(RSub(position.current_price, position.entry_price),
                   position.entry_price),
              RatOf(100))

\* mutant: the stop-loss boundary itself is not a loss
should_stop_loss_mut(pnl_percent, threshold) == RLt(pnl_percent, threshold)

\* Position.should_stop_loss(threshold): pnl_percent <= threshold
should_stop_loss(pnl_percent, threshold) == RLe(pnl_percent, threshold)

\* Position.should_take_profit(threshold): pnl_percent >= threshold
should_take_profit(pnl_percent, threshold) == RLe(threshold, pnl_percent)

\* MonitorService.check_position on a position with that pnl_percent,
\* under those thresholds: (should_sell, action)
exit_action(pnl_percent, stop_loss_threshold, take_profit_threshold) ==
    IF should_stop_loss(pnl_percent, stop_loss_threshold)
    THEN [should_sell |-> TRUE, action |-> "stop_loss"]
    ELSE IF should_take_profit(pnl_percent, take_profit_threshold)
    THEN [should_sell |-> TRUE, action |-> "take_profit"]
    ELSE [should_sell |-> FALSE, action |-> "hold"]

\* MonitorService.check_position: the action for a position, whose
\* pnl_percent update_position_prices has just recomputed
check_position(position) ==
    exit_action(calculate_pnl(position), RatOf(stop_loss_percent),
                RatOf(take_profit_percent)).action

\* the frame of a run: the locals of run_discovery / run_monitor and of the
\* workflow's run(), the WorkflowRunResult being built, and history
\* (before, wrote_before, wrote_after, gate, fetched, asked, items, sold,
\* pre) of what the run did
IdleRun ==
    [kind |-> "none", mode |-> "fake", pc |-> "idle", stamp |-> 0,
     success |-> FALSE, errors |-> <<>>, markets_analyzed |-> 0,
     suggestions_generated |-> 0, orders_placed |-> 0,
     positions_checked |-> 0, sells_triggered |-> 0, stop_losses |-> 0,
     take_profits |-> 0,
     suggestions |-> <<>>, fetched_positions |-> <<>>, balance |-> Zero,
     i |-> 1, size |-> Zero,
     before |-> NoState, wrote_before |-> FALSE, wrote_after |-> FALSE,
     gate |-> "none", fatal |-> FALSE, fetched |-> FALSE, asked |-> FALSE,
     items |-> <<>>, sold |-> <<>>, pre |-> NoLedger,
     read |-> Zero, gated |-> <<>>]

NoToggle == [workflow_id |-> "none", mode |-> "fake", enabled |-> FALSE,
             outcome |-> "none", before |-> [k \in WfKeys |-> NoState]]
NoHist == [nruns |-> 0, ntoggles |-> 0, toggle |-> NoToggle]

RunKey == <<run.kind, run.mode>>
RunOver == run.pc \in {"idle", "done", "escaped"}
\* errors[0] if errors else None
FirstError(errors) == IF errors = <<>> THEN NoErr ELSE errors[1]

\* what the run did with one item of its loop
Item(i, what, id) == [i |-> i, what |-> what, id |-> id]

\* run(): "except Exception as e: errors.append(str(e)); success = False"
Fatal(r, where) ==
    [r EXCEPT !.pc = "record_end", !.errors = Append(@, Err("fault", where, 0)),
              !.success = FALSE, !.fatal = TRUE]

\* run_discovery / run_monitor begins
RunBegin(workflow_id, mode) ==
    /\ RunOver
    /\ hist.nruns < MaxRuns
    /\ run' = [IdleRun EXCEPT !.kind = workflow_id, !.mode = mode,
                  !.pc = "record_start", !.stamp = hist.nruns + 1,
                  !.before = wf[<<workflow_id, mode>>], !.pre = Ledger]
    /\ hist' = [hist EXCEPT !.nruns = @ + 1, !.toggle = NoToggle]
    /\ UNCHANGED <<ledger, wf>>

\* await self._update_workflow_state(id, mode, running=True)
RecordStart ==
    /\ run.pc = "record_start"
    /\ \E ok \in BOOLEAN :
        /\ wf' = IF ok
                 THEN [wf EXCEPT ![RunKey] =
                          update_workflow_state(@, TRUE, NoErr, run.stamp)]
                 ELSE wf
        /\ run' = [run EXCEPT !.wrote_before = ok,
                      !.pc = IF update_workflow_state_error(ok) = "raised"
                             THEN "escaped"
                             ELSE IF run.kind = "discovery" THEN "gate"
                             ELSE "fetch"]
    /\ UNCHANGED <<ledger, hist>>

\* await self._update_workflow_state(id, mode, running=False,
\* last_error=result.errors[0] if result.errors else None); return result
RecordEnd ==
    /\ run.pc = "record_end"
    /\ \E ok \in BOOLEAN :
        /\ wf' = IF ok
                 THEN [wf EXCEPT ![RunKey] =
                          update_workflow_state(@, FALSE, FirstError(run.errors),
                                                run.stamp)]
                 ELSE wf
        /\ run' = [run EXCEPT !.wrote_after = ok,
                      !.pc = IF update_workflow_state_error(ok) = "raised"
                             THEN "escaped" ELSE "done"]
    /\ UNCHANGED <<ledger, hist>>

(* DiscoveryWorkflow.run *)
\* mutant: a closed gate is only noted, and the run goes on
cannot_trade_mut(r, reason) ==
    [r EXCEPT !.pc = "markets", !.gate = "closed",
              !.errors = <<Err("gate", reason, 0)>>]

\* "if not can_trade: return WorkflowRunResult(success=False, errors=[reason])"
cannot_trade(r, reason) ==
    [r EXCEPT !.pc = "record_end", !.gate = "closed", !.success = FALSE,
              !.errors = <<Err("gate", reason, 0)>>, !.markets_analyzed = 0,
              !.suggestions_generated = 0, !.orders_placed = 0]

\* Step 1: await self.trader.can_trade(mode, min_balance)
DiscoveryGate ==
    /\ run.kind = "discovery" /\ run.pc = "gate"
    /\ Quiet
    /\ CanTradeBegin(Main, run.mode, RatOf(min_balance_to_trade))
    /\ run' = [run EXCEPT !.pc = "gate_wait"]
    /\ UNCHANGED <<wf, hist>>

DiscoveryGateResult ==
    /\ run.kind = "discovery" /\ run.pc = "gate_wait"
    /\ Finished(Main)
    /\ run' = IF calls[Main].pc = "raised" THEN Fatal(run, "can_trade")
              ELSE IF ~calls[Main].can_trade
              THEN cannot_trade(run, calls[Main].reason)
              ELSE [run EXCEPT !.pc = "markets", !.gate = "open"]
    /\ UNCHANGED <<ledger, wf, hist>>

\* mutant: an empty market list is reported as a failed run
no_markets_mut(r) ==
    [r EXCEPT !.pc = "record_end", !.success = FALSE, !.markets_analyzed = 0,
              !.suggestions_generated = 0, !.orders_placed = 0]

\* "if not markets: return WorkflowRunResult(success=True, markets_analyzed=0)"
no_markets(r) ==
    [r EXCEPT !.pc = "record_end", !.success = TRUE, !.markets_analyzed = 0,
              !.suggestions_generated = 0, !.orders_placed = 0]

\* "if not suggestions: return WorkflowRunResult(success=True, ...)"
no_suggestions(r) ==
    [r EXCEPT !.pc = "record_end", !.success = TRUE,
              !.suggestions_generated = 0, !.orders_placed = 0]

\* the numbers of markets the scraper may hand back
MarketCounts == {0, 2}

\* Step 2: await self.scraper.get_tradeable_markets(...)
DiscoveryMarkets ==
    /\ run.kind = "discovery" /\ run.pc = "markets"
    /\ \E ok \in BOOLEAN, n \in MarketCounts :
        /\ ~ok => n = 0
        /\ LET r == [run EXCEPT !.fetched = TRUE]
           IN  run' = IF ~ok THEN Fatal(r, "get_tradeable_markets")
                      ELSE IF n = 0 THEN no_markets(r)
                      ELSE [r EXCEPT !.pc = "suggest", !.markets_analyzed = n]
    /\ UNCHANGED <<ledger, wf, hist>>

\* Step 3: await self.ai.analyze_markets(markets), get_top_suggestions
DiscoverySuggest ==
    /\ run.kind = "discovery" /\ run.pc = "suggest"
    /\ \E ok \in BOOLEAN, analysis \in AnalysisLists :
        /\ ~ok => analysis = <<>>
        /\ LET r == [run EXCEPT !.asked = TRUE]
               suggestions == get_top_suggestions(analysis, max_suggestions)
           IN  run' = IF ~ok THEN Fatal(r, "analyze_markets")
                      ELSE IF suggestions = <<>> THEN no_suggestions(r)
                      ELSE [r EXCEPT !.pc = "balance",
                               !.suggestions = suggestions,
                               !.suggestions_generated = Len(suggestions)]
    /\ UNCHANGED <<ledger, wf, hist>>

\* balances the live account may report to a run
RunLiveBalances == LiveBalances \cup {RatOf(20)}

\* Step 4: balance = await self.trader.get_balance(mode)
DiscoveryBalance ==
    /\ run.kind = "discovery" /\ run.pc = "balance"
    /\ \E ok \in BOOLEAN :
       \E balance \in IF run.mode = "real" THEN RunLiveBalances ELSE {wallet} :
        /\ (~ok /\ run.mode = "real") => balance = Zero
        /\ run' = IF ~ok THEN Fatal(run, "get_balance")
                  ELSE [run EXCEPT !.pc = "loop", !.balance = balance, !.i = 1,
                                   !.read = balance]
    /\ UNCHANGED <<ledger, wf, hist>>

\* mutant: the running balance is left as it was read
order_result_mut(r, order) ==
    IF order.status \in {"filled", "pending"}
    THEN [r EXCEPT !.pc = "loop", !.i = @ + 1, !.orders_placed = @ + 1,
                   !.items = Append(@, Item(r.i, "placed", 0))]
    ELSE [r EXCEPT !.pc = "loop", !.i = @ + 1,
                   !.items = Append(@, Item(r.i, order.status, 0))]

\* "if order.status.value in ["filled", "pending"]: orders_placed += 1;
\* balance -= position_size"; any other Order is passed over
order_result(r, order) ==
    IF order.status \in {"filled", "pending"}
    THEN [r EXCEPT !.pc = "loop", !.i = @ + 1, !.orders_placed = @ + 1,
                   !.balance = RSub(@, r.size),
                   !.items = Append(@, Item(r.i, "placed", 0))]
    ELSE [r EXCEPT !.pc = "loop", !.i = @ + 1,
                   !.items = Append(@, Item(r.i, order.status, 0))]

\* "except Exception as e: errors.append(f"Order failed for ...")"
order_raised(r, market_id) ==
    [r EXCEPT !.pc = "loop", !.i = @ + 1,
              !.errors = Append(@, Err("order", market_id, r.i)),
              !.items = Append(@, Item(r.i, "raised", 0))]

\* suggestions[:max_orders], max_orders = max_positions
LoopItems(r) == SubSeq(r.suggestions, 1, Min(max_positions, Len(r.suggestions)))

\* one turn of "for suggestion in suggestions[:max_orders]": should_trade,
\* then either "continue" or the call of execute_suggestion
DiscoveryItem ==
    /\ run.kind = "discovery" /\ run.pc = "loop"
    /\ run.i <= Len(LoopItems(run))
    /\ LET suggestion == run.suggestions[run.i]
           t == should_trade(suggestion, run.balance)
           gated == Append(run.gated, [balance |-> run.balance, size |-> t.size])
       IN  IF ~t.ok
           THEN /\ run' = [run EXCEPT !.i = @ + 1, !.gated = gated,
                              !.items = Append(@, Item(run.i, "skipped", 0))]
                /\ UNCHANGED ledger
           ELSE /\ Quiet
                /\ BuyBegin(Main, suggestion.market_id,
                            suggestion.recommended_outcome, t.size,
                            execute_price, run.mode)
                /\ run' = [run EXCEPT !.pc = "buy_wait", !.size = t.size,
                                      !.gated = gated]
    /\ UNCHANGED <<wf, hist>>

\* execute_suggestion has returned an Order, or raised
DiscoveryItemResult ==
    /\ run.kind = "discovery" /\ run.pc = "buy_wait"
    /\ Finished(Main)
    /\ run' = IF calls[Main].pc = "raised"
              THEN order_raised(run, calls[Main].market_id)
              ELSE order_result(run, calls[Main].result)
    /\ UNCHANGED <<ledger, wf, hist>>

\* mutant: success although nothing was placed
discovery_success_mut(orders_placed, suggestions) == TRUE

\* "success = orders_placed > 0 or not suggestions"
discovery_success(orders_placed, suggestions) ==
    orders_placed > 0 \/ suggestions = <<>>

\* the loop is over: the success flag and the result
DiscoveryEnd ==
    /\ run.kind = "discovery" /\ run.pc = "loop"
    /\ run.i > Len(LoopItems(run))
    /\ run' = [run EXCEPT !.pc = "record_end",
                  !.success = discovery_success(run.orders_placed,
                                                run.suggestions)]
    /\ UNCHANGED <<ledger, wf, hist>>

(* MonitorWorkflow.run and MonitorService.monitor_positions *)
\* positions the live account may report to a Monitor run
MonitorLivePositions ==
    LivePositions \cup
    {[id |-> 101, market_id |-> "m1", outcome |-> "Yes",
      entry_price |-> R(1, 2), current_price |-> R(3, 4),
      quantity |-> RatOf(2), entry_value |-> RatOf(1),
      current_value |-> R(3, 2), mode |-> "real"]}

\* the fetched documents as a list, in the order of their ids
RECURSIVE ById(_)
ById(S) ==
    IF S = {} THEN <<>>
    ELSE LET x == CHOOSE y \in S : \A z \in S : y.id <= z.id
         IN  <<x>> \o ById(S \ {x})

\* positions = await self.get_positions(mode)
MonitorFetch ==
    /\ run.kind = "monitor" /\ run.pc = "fetch"
    /\ \E ok \in BOOLEAN :
       \E ps \in IF run.mode = "real" THEN SUBSET MonitorLivePositions
                 ELSE {get_open_positions(run.mode)} :
        /\ (~ok /\ run.mode = "real") => ps = {}
        /\ run' = IF ~ok THEN Fatal(run, "get_positions")
                  ELSE [run EXCEPT !.pc = "check", !.fetched_positions = ById(ps),
                           !.positions_checked = Cardinality(ps), !.i = 1]
    /\ UNCHANGED <<ledger, wf, hist>>

\* one turn of "for position in positions": check_position, then either
\* nothing or the call of place_sell_order(position)
MonitorItem ==
    /\ run.kind = "monitor" /\ run.pc = "check"
    /\ run.i <= Len(run.fetched_positions)
    /\ LET position == run.fetched_positions[run.i]
           action == check_position(position)
       IN  IF action = "hold"
           THEN /\ run' = [run EXCEPT !.i = @ + 1,
                              !.items = Append(@, Item(run.i, "hold", position.id))]
                /\ UNCHANGED ledger
           ELSE /\ Quiet
                /\ SellBegin(Main, position, NoPrice)
                /\ run' = [run EXCEPT !.pc = "sell_wait",
                              !.sold = Append(@, position.id)]
    /\ UNCHANGED <<wf, hist>>

\* mutant: a sell that raised is counted as triggered
sell_result_mut(r, position, raised) ==
    [r EXCEPT !.pc = "check", !.i = @ + 1, !.sells_triggered = @ + 1,
              !.errors = IF raised THEN Append(@, Err("sell", "", position.id))
                         ELSE @,
              !.items = Append(@, Item(r.i, check_position(position), position.id))]

\* place_sell_order has returned ("sells_triggered += 1" and the counter
\* of the action) or raised ("errors.append(f"Failed to sell ...")")
sell_result(r, position, raised) ==
    LET action == check_position(position)
    IN  IF raised
        THEN [r EXCEPT !.pc = "check", !.i = @ + 1,
                       !.errors = Append(@, Err("sell", "", position.id)),
                       !.items = Append(@, Item(r.i, "raised", position.id))]
        ELSE [r EXCEPT !.pc = "check", !.i = @ + 1,
                       !.sells_triggered = @ + 1,
                       !.stop_losses = IF action = "stop_loss" THEN @ + 1 ELSE @,
                       !.take_profits = IF action = "take_profit" THEN @ + 1 ELSE @,
                       !.items = Append(@, Item(r.i, action, position.id))]

MonitorItemResult ==
    /\ run.kind = "monitor" /\ run.pc = "sell_wait"
    /\ Finished(Main)
    /\ run' = sell_result(run, run.fetched_positions[run.i],
                          calls[Main].pc = "raised")
    /\ UNCHANGED <<ledger, wf, hist>>

\* mutant: any error fails the run
monitor_success_mut(errors, sells_triggered) == Len(errors) = 0

\* "success = len(errors) == 0 or sells_triggered > 0"
monitor_success(errors, sells_triggered) ==
    Len(errors) = 0 \/ sells_triggered > 0

\* monitor_positions has returned: the success flag and the result
MonitorEnd ==
    /\ run.kind = "monitor" /\ run.pc = "check"
    /\ run.i > Len(run.fetched_positions)
    /\ run' = [run EXCEPT !.pc = "record_end",
                  !.success = monitor_success(run.errors, run.sells_triggered),
                  !.markets_analyzed = run.positions_checked,
                  !.orders_placed = run.sells_triggered]
    /\ UNCHANGED <<ledger, wf, hist>>

(* the workflow registry *)
ToggleOutcomes == {"ok", "get_failed", "update_failed"}

\* toggle_workflow(workflow_id, mode, enabled): the read, the change and
\* the write; either store call may raise, and then nothing is written
Toggle(workflow_id, mode, enabled) ==
    /\ RunOver
    /\ hist.ntoggles < MaxToggles
    /\ \E outcome \in ToggleOutcomes :
        /\ wf' = IF outcome = "ok"
                 THEN [wf EXCEPT ![<<workflow_id, mode>>] =
                          toggle_workflow(@, enabled)]
                 ELSE wf
        /\ hist' = [hist EXCEPT !.ntoggles = @ + 1,
                       !.toggle = [workflow_id |-> workflow_id, mode |-> mode,
                                   enabled |-> enabled, outcome |-> outcome,
                                   before |-> wf]]
    /\ UNCHANGED <<ledger, run>>


(* ------------------- the Wallet object on its own ---------------------- *)
\* the object and the calls made on it: (method, argument, balance
\* before, balance after, returned value)
NewWallet(balance) == [balance |-> balance, log |-> <<>>]

WalletCall(op, amount, prev, balance, ret) ==
    [op |-> op, amount |-> amount, prev |-> prev, balance |-> balance,
     ret |-> ret]

\* Wallet.deduct(amount) on the object w
WalletDeduct(amount) ==
    /\ Len(w.log) < MaxWalletOps
    /\ LET d == deduct(w.balance, amount)
       IN  w' = [balance |-> d.balance,
                 log |-> Append(w.log, WalletCall("deduct", amount, w.balance,
                                                  d.balance, d.ok))]
    /\ UNCHANGED <<settings, wallet, positions, transactions, calls, nextId,
                   ncalls, epoch, lastBuy,
                   run, wf, hist, fn>>

\* Wallet.add(amount) on the object w
WalletAdd(amount) ==
    /\ Len(w.log) < MaxWalletOps
    /\ w' = [balance |-> add(w.balance, amount),
             log |-> Append(w.log, WalletCall("add", amount, w.balance,
                                              add(w.balance, amount), TRUE))]
    /\ UNCHANGED <<settings, wallet, positions, transactions, calls, nextId,
                   ncalls, epoch, lastBuy,
                   run, wf, hist, fn>>

(* --------------------------- specifications ---------------------------- *)
\* the orchestrator at rest
NoRun ==
    /\ run = IdleRun
    /\ wf = [k \in WfKeys |-> NoState]
    /\ hist = NoHist
    /\ fn = NoCall

\* the store as scripts/init_firestore.py leaves it: the default wallet
\* with the initial balance, no position, no transaction
Init ==
    /\ settings \in SettingsSet
    /\ wallet = RatOf(initial_balance)
    /\ positions = {}
    /\ transactions = <<>>
    /\ calls = [p \in Procs |-> IdleCall]
    /\ nextId = 1
    /\ ncalls = 0
    /\ epoch = [base |-> RatOf(initial_balance), n |-> 0]
    /\ lastBuy = NoBuy
    /\ w = NewWallet(RatOf(initial_balance))
    /\ NoRun

BuyCall(p) ==
    \E market_id \in Markets, outcome \in Outcomes, amount \in Amounts,
       price \in BuyPrices, mode \in Modes :
        BuyBegin(p, market_id, outcome, amount, price, mode)

SellCall(p) ==
    \E position \in positions \cup LivePositions,
       price \in SellPrices \cup {NoPrice} :
        SellBegin(p, position, price)

CanTradeCall(p) ==
    \E mode \in Modes, amount \in Amounts : CanTradeBegin(p, mode, amount)

\* a suspended ledger call resumes at its next store call
LedgerStep(p) ==
    \/ BuyUpdateWallet(p)
    \/ BuyCreateTransaction(p)
    \/ BuyCreatePosition(p)
    \/ SellUpdateWallet(p)
    \/ SellCreateTransaction(p)
    \/ SellDeletePosition(p)

\* the ledger as one pipeline drives it: one call at a time, each driven
\* to completion before the next begins
Next ==
    \/ Quiet /\ BuyCall(Main) /\ UNCHANGED pipe
    \/ Quiet /\ SellCall(Main) /\ UNCHANGED pipe
    \/ Quiet /\ CanTradeCall(Main) /\ UNCHANGED pipe
    \/ LedgerStep(Main)
    \/ CanTradePositions(Main)

Spec == Init /\ [][Next]_vars

\* the ledger under overlapping requests: a call may begin while another
\* caller is suspended at an await
InitConc ==
    /\ Init
    /\ ~settings.real_money_enabled /\ settings.fake_money_enabled

NextConc ==
    \E p \in Procs :
        \/ BuyCall(p) /\ UNCHANGED pipe
        \/ SellCall(p) /\ UNCHANGED pipe
        \/ LedgerStep(p)

SpecConc == InitConc /\ [][NextConc]_vars

\* the Wallet object alone, from any balance
InitWallet ==
    /\ settings \in {[real_money_enabled |-> FALSE, fake_money_enabled |-> TRUE]}
    /\ wallet = RatOf(initial_balance)
    /\ positions = {}
    /\ transactions = <<>>
    /\ calls = [p \in Procs |-> IdleCall]
    /\ nextId = 1
    /\ ncalls = 0
    /\ epoch = [base |-> RatOf(initial_balance), n |-> 0]
    /\ lastBuy = NoBuy
    /\ \E b \in WalletBalances : w = NewWallet(b)
    /\ NoRun

NextWallet ==
    \E amount \in Amounts : WalletDeduct(amount) \/ WalletAdd(amount)

SpecWallet == InitWallet /\ [][NextWallet]_vars

(* the pipelines, run one at a time over a ledger some history left *)
\* paper positions as the store may hold them: current_price is what
\* update_position last wrote
StoredPosition(id, current_price) ==
    [id |-> id, market_id |-> "m1", outcome |-> "Yes",
     entry_price |-> R(1, 2), current_price |-> current_price,
     quantity |-> RatOf(2), entry_value |-> RatOf(1),
     current_value |-> RMul(current_price, RatOf(2)), mode |-> "fake"]

StoredPositionSets ==
    {{},
     {StoredPosition(1, R(1, 2))},
     {StoredPosition(1, R(1, 2)), StoredPosition(2, R(3, 4))},
     {StoredPosition(2, R(3, 4)), StoredPosition(3, R(1, 4))}}

RunBalances == {RatOf(0), RatOf(10), RatOf(20)}

\* the log of the buys that left the stored positions and the balance
RECURSIVE BuyLog(_, _)
BuyLog(ps, balance) ==
    IF ps = <<>> THEN <<>>
    ELSE LET x == ps[Len(ps)]
             before == RAdd(balance, x.entry_value)
         IN  Append(BuyLog(SubSeq(ps, 1, Len(ps) - 1), before),
                    Transaction("buy", x.entry_value, before, balance,
                                Reference("order", x.market_id, 0)))

\* no workflow_state document yet, or the four init_firestore.py creates
WfStores ==
    {[k \in WfKeys |-> NoState],
     [k \in WfKeys |-> WorkflowState(k[2] = "fake")]}

InitAny ==
    /\ settings \in SettingsSet
    /\ wallet \in RunBalances
    /\ positions \in StoredPositionSets
    /\ transactions = BuyLog(ById(positions), wallet)
    /\ calls = [p \in Procs |-> IdleCall]
    /\ nextId = 10
    /\ ncalls = 0
    /\ epoch = [base |-> wallet, n |-> 0]
    /\ lastBuy = NoBuy
    /\ w = NewWallet(RatOf(initial_balance))
    /\ run = IdleRun
    /\ wf \in WfStores
    /\ hist = NoHist
    /\ fn = NoCall

\* both modes enabled, so that runs of either mode get past the flags
InitRun ==
    /\ InitAny
    /\ settings.real_money_enabled /\ settings.fake_money_enabled

NextRun ==
    \/ \E workflow_id \in Workflows, mode \in Modes : RunBegin(workflow_id, mode)
    \/ RecordStart
    \/ DiscoveryGate
    \/ CanTradePositions(Main)
    \/ DiscoveryGateResult
    \/ DiscoveryMarkets
    \/ DiscoverySuggest
    \/ DiscoveryBalance
    \/ DiscoveryItem
    \/ DiscoveryItemResult
    \/ DiscoveryEnd
    \/ MonitorFetch
    \/ MonitorItem
    \/ MonitorItemResult
    \/ MonitorEnd
    \/ LedgerStep(Main)
    \/ RecordEnd

SpecRun == InitRun /\ [][NextRun]_vars

(* the workflow registry: Toggle between runs that end early *)
InitRegistry ==
    /\ InitAny
    /\ ~settings.real_money_enabled /\ ~settings.fake_money_enabled
    /\ wallet = RatOf(10)
    /\ positions = {}

NextRegistry ==
    \/ \E workflow_id \in Workflows, mode \in Modes : RunBegin(workflow_id, mode)
    \/ RecordStart
    \/ DiscoveryGate
    \/ DiscoveryGateResult
    \/ MonitorFetch
    \/ MonitorEnd
    \/ RecordEnd
    \/ \E workflow_id \in Workflows, mode \in Modes, enabled \in BOOLEAN :
        Toggle(workflow_id, mode, enabled)

SpecRegistry == InitRegistry /\ [][NextRegistry]_vars

(* a paper Discovery run overlapped by another request's Buy *)
\* what the other caller buys for: the whole balance
OtherAmounts == {RatOf(10)}

\* place_buy_order called for another request, served while the run is
\* suspended at an await of its own
OtherBuy ==
    /\ ~RunOver
    /\ run.pc \notin {"gate_wait", "buy_wait", "sell_wait"}
    /\ Quiet
    /\ \E amount \in OtherAmounts, price \in BuyPrices :
        BuyBegin(2, "m1", "Yes", amount, price, "fake")
    /\ UNCHANGED pipe

InitOverlap ==
    /\ InitAny
    /\ ~settings.real_money_enabled /\ settings.fake_money_enabled
    /\ wallet = RatOf(10)
    /\ positions = {}

NextOverlap ==
    \/ RunBegin("discovery", "fake")
    \/ RecordStart
    \/ DiscoveryGate
    \/ CanTradePositions(Main)
    \/ DiscoveryGateResult
    \/ DiscoveryMarkets
    \/ DiscoverySuggest
    \/ DiscoveryBalance
    \/ DiscoveryItem
    \/ DiscoveryItemResult
    \/ DiscoveryEnd
    \/ RecordEnd
    \/ OtherBuy
    \/ \E p \in Procs : \/ BuyUpdateWallet(p)
                        \/ BuyCreateTransaction(p)
                        \/ BuyCreatePosition(p)

SpecOverlap == InitOverlap /\ [][NextOverlap]_vars

(* ------------------- the pure functions, called alone ------------------ *)
\* everything a call of a pure function leaves alone
rest == <<settings, wallet, positions, transactions, calls, nextId, ncalls,
          epoch, lastBuy, w, run, wf, hist>>

\* pnl_percent of the position evaluated, and the thresholds of the
\* configuration, the misconfigured ones (stop loss >= take profit) too
PnlPercents == {RatOf(-20), RatOf(-15), R(-29, 2), RatOf(0), R(59, 2),
                RatOf(30), RatOf(40)}
StopLossThresholds == {RatOf(-15), RatOf(0), RatOf(30), RatOf(40)}
TakeProfitThresholds == {RatOf(-20), RatOf(-15), RatOf(0), RatOf(30)}

\* await monitor.check_position(position)
CheckPosition ==
    /\ \E pnl_percent \in PnlPercents, stop_loss \in StopLossThresholds,
          take_profit \in TakeProfitThresholds :
        fn' = [name |-> "check_position", pnl_percent |-> pnl_percent,
               stop_loss |-> stop_loss, take_profit |-> take_profit,
               result |-> exit_action(pnl_percent, stop_loss, take_profit)]
    /\ UNCHANGED rest

SpecExit == InitConc /\ [][CheckPosition]_vars

\* the suggestions and balances should_trade is called with
Confidences == {R(1, 2), R(7, 10), R(9, 10)}
Fractions == {R(1, 100), R(1, 20), R(1, 10), R(1, 2)}
GateBalances == {RatOf(0), R(1, 2), RatOf(1), RatOf(5), RatOf(10), RatOf(15),
                 RatOf(20), RatOf(30), RatOf(100)}

\* await ai.should_trade(suggestion, wallet_balance)
ShouldTrade ==
    /\ \E confidence \in Confidences, fraction \in Fractions,
          balance \in GateBalances :
        fn' = [name |-> "should_trade",
               suggestion |-> Suggestion(confidence, fraction),
               wallet_balance |-> balance,
               result |-> should_trade(Suggestion(confidence, fraction), balance)]
    /\ UNCHANGED rest

SpecGate == InitConc /\ [][ShouldTrade]_vars

(* MarketFilter: src/services/scraper/filters.py *)
\* MarketFiltersConfig, at the source defaults
min_volume == 1000
min_liquidity == 500
max_time_to_resolution_hours == 1
excluded_categories == <<"sports", "entertainment">>
min_price == R(5, 100)
max_price == R(95, 100)
\* _check_time_to_resolution: min_hours = 5 / 60
min_hours == R(5, 60)

\* str.lower() on the categories that occur
Lower(c) ==
    CASE c = "Sports" -> "sports"
      [] c = "ENTERTAINMENT" -> "entertainment"
      [] OTHER -> c

Range(s) == {s[k] : k \in 1..Len(s)}
Pass == [passed |-> TRUE, reason |-> "none"]
Fail(reason) == [passed |-> FALSE, reason |-> reason]

\* _check_time_to_resolution, on compute_time_to_resolution() in hours
check_time_to_resolution(time_to_resolution) ==
    IF RLe(time_to_resolution, Zero) THEN Fail("ended")
    ELSE IF RLt(RatOf(max_time_to_resolution_hours), time_to_resolution)
    THEN Fail("too_far")
    ELSE IF RLt(time_to_resolution, min_hours) THEN Fail("too_soon")
    ELSE Pass

check_volume(volume) == IF volume < min_volume THEN Fail("volume") ELSE Pass

check_liquidity(liquidity) ==
    IF liquidity < min_liquidity THEN Fail("liquidity") ELSE Pass

check_category(category) ==
    IF Lower(category) \in {Lower(c) : c \in Range(excluded_categories)}
    THEN Fail("category") ELSE Pass

\* the loop's test on one outcome: the price is outside the band
extreme(price) == RLt(price, min_price) \/ RLt(max_price, price)

\* mutant: every outcome has to be inside the band
check_price_range_mut(outcomes) ==
    IF \E k \in 1..Len(outcomes) : extreme(outcomes[k])
    THEN Fail("price") ELSE Pass

\* _check_price_range: the loop over market.outcomes, by their prices,
\* returns at the first outcome that is not extreme
check_price_range(outcomes) ==
    IF \A k \in 1..Len(outcomes) : extreme(outcomes[k])
    THEN Fail("price") ELSE Pass

\* mutant: the price check comes first
filter_market_mut(market) ==
    LET price_check == check_price_range(market.outcomes)
        time_check == check_time_to_resolution(market.time_to_resolution)
        volume_check == check_volume(market.volume)
        liquidity_check == check_liquidity(market.liquidity)
        category_check == check_category(market.category)
    IN  IF ~price_check.passed THEN price_check
        ELSE IF ~time_check.passed THEN time_check
        ELSE IF ~volume_check.passed THEN volume_check
        ELSE IF ~liquidity_check.passed THEN liquidity_check
        ELSE IF ~category_check.passed THEN category_check
        ELSE Pass

\* MarketFilter.filter_market
filter_market(market) ==
    LET time_check == check_time_to_resolution(market.time_to_resolution)
        volume_check == check_volume(market.volume)
        liquidity_check == check_liquidity(market.liquidity)
        category_check == check_category(market.category)
        price_check == check_price_range(market.outcomes)
    IN  IF ~time_check.passed THEN time_check
        ELSE IF ~volume_check.passed THEN volume_check
        ELSE IF ~liquidity_check.passed THEN liquidity_check
        ELSE IF ~category_check.passed THEN category_check
        ELSE IF ~price_check.passed THEN price_check
        ELSE Pass

\* the markets filtered: hours to resolution, volume, liquidity, category
\* and the prices of the outcomes
ResolutionTimes == {Zero, R(3, 60), R(5, 60), R(1, 2), RatOf(1), R(3, 2)}
Volumes == {999, 1000}
Liquidities == {499, 500}
Categories == {"politics", "sports", "Sports"}
OutcomePrices ==
    {<<>>, <<R(1, 2)>>, <<R(1, 100), R(99, 100)>>, <<R(1, 100), R(1, 2)>>,
     <<R(5, 100), R(99, 100)>>, <<R(1, 100), R(95, 100)>>,
     <<R(4, 100), R(96, 100)>>}

MarketSet ==
    [time_to_resolution : ResolutionTimes, volume : Volumes,
     liquidity : Liquidities, category : Categories, outcomes : OutcomePrices]

\* filter.filter_market(market)
FilterMarket ==
    /\ \E market \in MarketSet :
        fn' = [name |-> "filter_market", market |-> market,
               result |-> filter_market(market)]
    /\ UNCHANGED rest

\* filter._check_price_range(market)
CheckPriceRange ==
    /\ \E outcomes \in OutcomePrices :
        fn' = [name |-> "check_price_range", outcomes |-> outcomes,
               result |-> check_price_range(outcomes)]
    /\ UNCHANGED rest

NextFilter == FilterMarket \/ CheckPriceRange

SpecFilter == InitConc /\ [][NextFilter]_vars

(* ------------------------------ properties ----------------------------- *)
PaperLedgerCall(c) == c.op \in {"buy", "sell"} /\ c.mode = "fake"

\* the three effects of a Buy, against the ledger as it was when it began
BuyEffects(c) ==
    /\ wallet = RSub(c.pre.wallet, c.amount)
    /\ transactions = Append(c.pre.transactions, BuyTransaction(c))
    /\ \E x \in positions :
        /\ x \notin c.pre.positions
        /\ positions = c.pre.positions \cup {x}

\* the three effects of a Sell, against the ledger as it was when it began
SellEffects(c) ==
    /\ wallet = RAdd(c.pre.wallet, c.proceeds)
    /\ transactions = Append(c.pre.transactions, SellTransaction(c))
    /\ positions = c.pre.positions \ {c.position}

\* C1: a paper-mode Buy or Sell is all-or-nothing: once the call has ended,
\* either the wallet, the open positions and the transaction log are all as
\* they were when it began, or all three of its effects have occurred.
C1_AllOrNothing ==
    \A p \in Procs :
        LET c == calls[p]
        IN  PaperLedgerCall(c) /\ Finished(p) =>
                \/ Ledger = c.pre
                \/ c.op = "buy" /\ BuyEffects(c)
                \/ c.op = "sell" /\ SellEffects(c)

\* what one call makes of a balance when it runs alone
Apply(balance, c) ==
    IF c.op = "buy"
    THEN IF RLe(c.amount, balance) THEN RSub(balance, c.amount) ELSE balance
    ELSE RAdd(balance, c.proceeds)

\* C2: two paper-mode ledger calls that overlapped in time, both returned,
\* leave the stored balance that running them one after the other, in one
\* of the two orders, would leave.
C2_Serialised ==
    \A p, q \in Procs :
        ( /\ p # q
          /\ Quiet /\ epoch.n = 2
          /\ calls[p].pc = "returned" /\ PaperLedgerCall(calls[p])
          /\ calls[q].pc = "returned" /\ PaperLedgerCall(calls[q]) )
        => wallet \in {Apply(Apply(epoch.base, calls[p]), calls[q]),
                       Apply(Apply(epoch.base, calls[q]), calls[p])}

\* C3: the stored wallet balance is never negative.
C3_BalanceNonNegative == RLe(Zero, wallet)

\* C3 witness: buys have brought the stored balance down to exactly zero
C3_Witness ==
    /\ wallet = Zero
    /\ \E i \in 1..Len(transactions) : transactions[i].type = "buy"

\* C4: every logged transaction has balance_after = balance_before - amount
\* when it is a buy and balance_before + amount when it is a sell.
C4_TransactionBalances ==
    \A i \in 1..Len(transactions) :
        LET t == transactions[i]
        IN  /\ t.type = "buy" =>
                t.balance_after = RSub(t.balance_before, t.amount)
            /\ t.type = "sell" =>
                t.balance_after = RAdd(t.balance_before, t.amount)

\* C4 witness: the log holds a buy and a sell of a non-zero amount
C4_Witness ==
    \E i, j \in 1..Len(transactions) :
        /\ transactions[i].type = "buy"
        /\ transactions[j].type = "sell"
        /\ transactions[j].amount # Zero

\* C5: a paper-mode Buy of more than the wallet holds changes nothing in the
\* ledger and, once the wallet has been read, returns a failed Order.
C5_UnaffordableBuy ==
    \A p \in Procs :
        LET c == calls[p]
        IN  ( /\ c.op = "buy" /\ c.mode = "fake" /\ Finished(p)
              /\ RLt(c.pre.wallet, c.amount) )
            => /\ Ledger = c.pre
               /\ c.read => c.pc = "returned" /\ c.result.status = "failed"
               /\ c.pc = "returned" => c.read

\* C5 witness: a Buy of more than the balance has returned
C5_Witness ==
    \E p \in Procs :
        /\ calls[p].op = "buy" /\ calls[p].mode = "fake"
        /\ calls[p].pc = "returned"
        /\ RLt(calls[p].pre.wallet, calls[p].amount)
        /\ Len(transactions) > 0

\* C6: a paper-mode Buy of an affordable amount a at price p that returns
\* has returned a filled Order and has, once each, taken a off the stored
\* balance, appended one buy transaction of amount a and added one open
\* position with entry price = current price = p and quantity a / p.
C6_BuyFilled ==
    \A p \in Procs :
        LET c == calls[p]
            n == Len(c.pre.transactions)
        IN  ( /\ c.op = "buy" /\ c.mode = "fake" /\ c.pc = "returned"
              /\ RLe(c.amount, c.pre.wallet) )
            => /\ c.result.status = "filled"
               /\ wallet = RSub(c.pre.wallet, c.amount)
               /\ Len(transactions) = n + 1
               /\ SubSeq(transactions, 1, n) = c.pre.transactions
               /\ transactions[n + 1].type = "buy"
               /\ transactions[n + 1].amount = c.amount
               /\ Cardinality(positions) = Cardinality(c.pre.positions) + 1
               /\ \E x \in positions :
                    /\ positions = c.pre.positions \cup {x}
                    /\ x.entry_price = c.price
                    /\ x.current_price = c.price
                    /\ x.quantity = RDiv(c.amount, c.price)

\* C6 witness: an affordable Buy has returned, next to an older position
C6_Witness ==
    \E p \in Procs :
        /\ calls[p].op = "buy" /\ calls[p].mode = "fake"
        /\ calls[p].pc = "returned"
        /\ calls[p].result.status = "filled"
        /\ calls[p].pre.positions # {}

\* C7: when a paper-mode Sell returns a filled Order, the stored balance has
\* grown by price x quantity, exactly one sell transaction that references
\* the position has been appended, and the position is no longer open.
C7_SellFilled ==
    \A p \in Procs :
        LET c == calls[p]
            n == Len(c.pre.transactions)
        IN  ( /\ c.op = "sell" /\ c.mode = "fake" /\ c.pc = "returned"
              /\ c.result.status = "filled" )
            => /\ wallet = RAdd(c.pre.wallet, RMul(c.price, c.position.quantity))
               /\ Len(transactions) = n + 1
               /\ SubSeq(transactions, 1, n) = c.pre.transactions
               /\ transactions[n + 1].type = "sell"
               /\ transactions[n + 1].reference_id.position_id = c.position.id
               /\ \A x \in positions : x.id # c.position.id

\* C8: a Buy at price p followed by a Sell, at p, of the position it created
\* leaves the stored balance and the open positions as they were before the
\* Buy.
C8_RoundTrip ==
    \A p \in Procs :
        LET c == calls[p]
        IN  ( /\ c.op = "sell" /\ c.mode = "fake" /\ c.pc = "returned"
              /\ c.result.status = "filled"
              /\ c.roundtrip.position_id # 0 )
            => /\ wallet = c.roundtrip.pre.wallet
               /\ positions = c.roundtrip.pre.positions

\* C9: Wallet.deduct(a) returns True and leaves balance - a when a is at
\* most the balance; otherwise it returns False and leaves the balance as
\* it was.
C9_Debit ==
    \A i \in 1..Len(w.log) :
        LET e == w.log[i]
        IN  e.op = "deduct" =>
                IF RLe(e.amount, e.prev)
                THEN e.ret /\ e.balance = RSub(e.prev, e.amount)
                ELSE ~e.ret /\ e.balance = e.prev

\* C9 witness: the object has seen a debit that succeeded and one that was
\* refused with money still in the wallet
C9_Witness ==
    \E i, j \in 1..Len(w.log) :
        /\ w.log[i].op = "deduct" /\ w.log[i].ret
        /\ w.log[j].op = "deduct" /\ ~w.log[j].ret
        /\ RLt(Zero, w.log[j].prev)

\* the state can_trade decides on: the balance of the mode and the number
\* of open paper positions
GateBalance(c) == IF c.mode = "fake" THEN c.pre.wallet ELSE c.balance
GateOpen(c) == Cardinality({x \in c.pre.positions : x.mode = "fake"})
GateDisabled(c) ==
    \/ c.mode = "real" /\ ~settings.real_money_enabled
    \/ c.mode = "fake" /\ ~settings.fake_money_enabled

\* the four grounds of refusal the specification lists
GateRefusal(c) ==
    \/ GateDisabled(c)
    \/ RLt(GateBalance(c), RatOf(min_balance_to_trade))
    \/ RLt(GateBalance(c), c.amount)
    \/ c.mode = "fake" /\ GateOpen(c) >= max_positions

RunEnded == run.pc \in {"record_end", "done"}
Discovery == run.kind = "discovery"
Monitor == run.kind = "monitor"

\* C11: a Discovery run whose gate (can_trade with min_balance_to_trade)
\* is closed returns at once with success false, the reason as its only
\* error and all counts zero; markets are not fetched, suggestions are not
\* requested and no Buy is issued
C11_GateClosed ==
    (Discovery /\ run.gate = "closed") =>
        /\ RunEnded
        /\ ~run.success
        /\ calls[Main].op = "can_trade" /\ ~calls[Main].can_trade
        /\ run.errors = <<Err("gate", calls[Main].reason, 0)>>
        /\ run.markets_analyzed = 0 /\ run.suggestions_generated = 0
        /\ run.orders_placed = 0
        /\ ~run.fetched /\ ~run.asked /\ run.items = <<>>
        /\ Ledger = run.pre

C11_Witness ==
    /\ Discovery /\ run.gate = "closed" /\ run.pc = "done"
    /\ run.errors = <<Err("gate", "max_positions", 0)>>

\* C12: a Discovery run that passes the gate and gets no market, or gets
\* markets but no suggestion, returns success true with no errors and no
\* order placed, and leaves the ledger as it was
C12_NothingToTrade ==
    (Discovery /\ RunEnded /\ run.gate = "open" /\ ~run.fatal
        /\ run.suggestions = <<>>) =>
        /\ run.success
        /\ run.errors = <<>>
        /\ run.orders_placed = 0
        /\ run.items = <<>>
        /\ Ledger = run.pre

C12_Witness ==
    /\ Discovery /\ run.pc = "done" /\ run.gate = "open" /\ ~run.fatal
    /\ run.asked /\ run.suggestions = <<>> /\ run.markets_analyzed > 0

\* the error a run records for a loop item whose ledger call failed
ItemError(it) ==
    IF Discovery THEN Err("order", "m1", it.i) ELSE Err("sell", "", it.id)

\* the ledger call of the item raised, or returned an Order that is
\* neither filled nor pending
ItemFailed(it) == it.what \in {"raised", "failed"}

\* the items of the loop the run has entered
LoopLength ==
    IF Discovery THEN Len(LoopItems(run)) ELSE Len(run.fetched_positions)

\* C13: for every loop item whose ledger call failed (a Discovery Buy that
\* raised or returned an Order neither filled nor pending, a Monitor Sell
\* that raised) the run's errors hold an entry for that item, and a run
\* that ends without a run-fatal fault has processed every item
C13_ItemFailure ==
    /\ \A k \in 1..Len(run.items) :
           ItemFailed(run.items[k]) =>
               \E j \in 1..Len(run.errors) : run.errors[j] = ItemError(run.items[k])
    /\ (RunEnded /\ ~run.fatal /\ run.gate # "closed") =>
           Len(run.items) = LoopLength

\* C14: the success flag of a Discovery result that passed the gate and
\* met no run-fatal fault is (orders_placed > 0) or (no suggestions)
C14_DiscoverySuccess ==
    (Discovery /\ RunEnded /\ run.gate = "open" /\ ~run.fatal) =>
        (run.success <=> (run.orders_placed > 0 \/ run.suggestions = <<>>))

C14_Witness ==
    /\ Discovery /\ run.pc = "done" /\ run.gate = "open" /\ ~run.fatal
    /\ run.success /\ run.orders_placed = 1 /\ run.errors # <<>>

\* the fetched positions the Monitor loop has dealt with so far
Examined ==
    SubSeq(run.fetched_positions, 1,
           IF run.pc = "sell_wait" THEN run.i
           ELSE Min(run.i - 1, Len(run.fetched_positions)))

IsExit(position) == check_position(position) # "hold"
Ids(s) == [k \in 1..Len(s) |-> s[k].id]

\* C15: in a Monitor run place_sell_order is invoked exactly once for each
\* fetched position evaluated stop_loss or take_profit, in order, and
\* never for one evaluated hold; sells_triggered = stop_losses +
\* take_profits; a position evaluated hold stays open, and a run all of
\* whose positions are hold leaves the ledger as it was
C15_MonitorSells ==
    Monitor =>
        /\ run.sold = Ids(SelectSeq(Examined, IsExit))
        /\ run.sells_triggered = run.stop_losses + run.take_profits
        /\ \A k \in 1..Len(Examined) :
               ~IsExit(Examined[k]) =>
                   (run.mode = "fake" => Examined[k] \in positions)
        /\ (RunEnded /\ ~run.fatal) => Examined = run.fetched_positions
        /\ run.sold = <<>> => Ledger = run.pre

C15_Witness ==
    /\ Monitor /\ run.pc = "done" /\ run.mode = "fake"
    /\ Len(run.fetched_positions) = 2
    /\ Len(run.sold) = 1 /\ run.sells_triggered = 1 /\ run.take_profits = 1
    /\ \E x \in positions : x.id = 1

\* C16: a Monitor result has success true exactly when its errors are
\* empty or a sell was triggered; when the position fetch itself fails
\* the result has success false and that fault as its error
C16_MonitorSuccess ==
    (Monitor /\ RunEnded) =>
        /\ run.success <=> (run.errors = <<>> \/ run.sells_triggered > 0)
        /\ run.fatal =>
               /\ ~run.success
               /\ run.errors = <<Err("fault", "get_positions", 0)>>
        /\ run.orders_placed = run.sells_triggered

C16_Witness ==
    /\ Monitor /\ run.pc = "done" /\ run.success
    /\ run.errors # <<>> /\ run.sells_triggered > 0

\* C17: run_discovery and run_monitor always return their result: no
\* exception escapes, whichever collaborator call or state write fails
C17_NoEscape ==
    /\ run.pc # "escaped"
    /\ run.pc = "done" => (run.fatal => ~run.success /\ run.errors # <<>>)

C17_Witness ==
    /\ run.pc = "done" /\ run.fatal
    /\ ~run.wrote_before /\ ~run.wrote_after

\* the pipeline of the run has started
PipelineStarted == run.kind \in Workflows /\ run.pc # "record_start"

\* C18 as stated: every run attempt has raised run_count by exactly one
\* and set last_run by the time its pipeline starts, and leaves last_error
\* equal to its first error, or null, after the pipeline has ended
C18_RecordRunAsStated ==
    PipelineStarted =>
        /\ wf[RunKey].run_count = run.before.run_count + 1
        /\ wf[RunKey].last_run = run.stamp
        /\ run.pc = "done" => wf[RunKey].last_error = FirstError(run.errors)

\* C18, amended: so it is for each of the two state writes that succeeds;
\* a write that fails is skipped and leaves the stored state as it was
C18_RecordRun ==
    PipelineStarted =>
        /\ run.wrote_before =>
               /\ wf[RunKey].run_count = run.before.run_count + 1
               /\ wf[RunKey].last_run = run.stamp
        /\ (~run.wrote_before /\ ~run.wrote_after) => wf[RunKey] = run.before
        /\ (run.pc = "done" /\ run.wrote_after) =>
               /\ wf[RunKey].last_error = FirstError(run.errors)
               /\ ~run.wrote_before =>
                      wf[RunKey].run_count = run.before.run_count
        /\ (run.pc = "done" /\ run.wrote_before /\ ~run.wrote_after) =>
               wf[RunKey].last_error = NoErr

C18_Witness ==
    /\ run.pc = "done" /\ run.wrote_before /\ run.wrote_after
    /\ run.errors # <<>> /\ run.before.exists

\* C19: a Toggle that returns leaves a state stored for (workflow, mode)
\* whose enabled flag is the requested one and whose run_count, last_run
\* and last_error are as before the call (0 and null when it had to be
\* created), and leaves the states of all other keys as they were
C19_Toggle ==
    hist.toggle.outcome = "ok" =>
        LET t == hist.toggle
            key == <<t.workflow_id, t.mode>>
        IN  /\ wf[key].exists
            /\ wf[key].enabled = t.enabled
            /\ wf[key].run_count = t.before[key].run_count
            /\ wf[key].last_run = t.before[key].last_run
            /\ wf[key].last_error = t.before[key].last_error
            /\ \A other \in WfKeys \ {key} : wf[other] = t.before[other]

C19_Witness ==
    /\ hist.toggle.outcome = "ok"
    /\ LET key == <<hist.toggle.workflow_id, hist.toggle.mode>>
       IN  /\ hist.toggle.before[key].run_count = 1
           /\ hist.toggle.before[key].enabled # hist.toggle.enabled
           /\ hist.toggle.before[key].last_error # NoErr

\* C20: a live Buy or Sell returns the Order of the external account
\* (pending, filled or failed) without raising, and leaves the paper
\* wallet, positions and transaction log as they were
C20_LiveOrder ==
    \A p \in Procs :
        (calls[p].op \in {"buy", "sell"} /\ calls[p].mode = "real"
            /\ Finished(p)) =>
            /\ calls[p].pc = "returned"
            /\ calls[p].result.status \in {"pending", "filled", "failed"}
            /\ Ledger = calls[p].pre

(* -------------------- properties of the pure functions ------------------ *)
\* C21: check_position returns stop_loss when pnl_percent <= the stop-loss
\* threshold, otherwise take_profit when pnl_percent >= the take-profit
\* threshold, otherwise hold: both boundaries inclusive, one action, and
\* stop_loss when both conditions hold
C21_ExitAction ==
    fn.name = "check_position" =>
        LET loss == fn.pnl_percent.n * fn.stop_loss.d
                        <= fn.stop_loss.n * fn.pnl_percent.d
            profit == fn.pnl_percent.n * fn.take_profit.d
                          >= fn.take_profit.n * fn.pnl_percent.d
        IN  /\ fn.result.action \in {"stop_loss", "take_profit", "hold"}
            /\ loss => fn.result.action = "stop_loss"
            /\ (~loss /\ profit) => fn.result.action = "take_profit"
            /\ (~loss /\ ~profit) => fn.result.action = "hold"
            /\ fn.result.should_sell <=> fn.result.action # "hold"

C21_Witness ==
    /\ fn.name = "check_position"
    /\ fn.pnl_percent = fn.stop_loss /\ fn.pnl_percent = fn.take_profit
    /\ fn.result.action = "stop_loss"

\* the size of C22: the least of fraction x balance, max_bet_amount and
\* max_position_percent x balance
IsGateSize(size, fraction, balance) ==
    LET terms == {RMul(fraction, balance), RatOf(max_bet_amount),
                  RMul(max_position_percent, balance)}
    IN  size \in terms /\ \A t \in terms : RLe(size, t)

\* C22: should_trade rejects for confidence below the threshold first,
\* then for balance below min_balance_to_trade, then for size < 1.0, and
\* otherwise accepts with exactly that size; nothing else changes
C22_ShouldTrade ==
    fn.name = "should_trade" =>
        LET low == fn.suggestion.confidence.n * confidence_threshold.d
                       < confidence_threshold.n * fn.suggestion.confidence.d
            poor == fn.wallet_balance.n
                        < min_balance_to_trade * fn.wallet_balance.d
            size == CHOOSE x \in {RMul(fn.suggestion.suggested_position_size,
                                        fn.wallet_balance),
                                   RatOf(max_bet_amount),
                                   RMul(max_position_percent, fn.wallet_balance)} :
                        IsGateSize(x, fn.suggestion.suggested_position_size,
                                   fn.wallet_balance)
            small == size.n < min_position_size * size.d
        IN  /\ low => ~fn.result.ok /\ fn.result.reason = "confidence"
            /\ (~low /\ poor) =>
                   ~fn.result.ok /\ fn.result.reason = "below_minimum"
            /\ (~low /\ ~poor /\ small) =>
                   ~fn.result.ok /\ fn.result.reason = "too_small"
            /\ (~low /\ ~poor /\ ~small) =>
                   fn.result.ok /\ fn.result.size = size
            /\ Ledger = [wallet |-> RatOf(initial_balance), positions |-> {},
                         transactions |-> <<>>]

C22_Witness ==
    /\ fn.name = "should_trade" /\ fn.result.ok
    /\ fn.result.size = RMul(max_position_percent, fn.wallet_balance)
    /\ RLt(fn.result.size, RatOf(max_bet_amount))
    /\ RLt(fn.result.size,
           RMul(fn.suggestion.suggested_position_size, fn.wallet_balance))

\* the reasons of the checks that fail for a market, each stated on the
\* market's own numbers
FailingChecks(m) ==
    LET t == m.time_to_resolution
    IN  (IF t.n <= 0 THEN {"ended"} ELSE {})
        \cup (IF t.n > max_time_to_resolution_hours * t.d /\ t.n > 0
              THEN {"too_far"} ELSE {})
        \cup (IF t.n > 0 /\ t.n <= max_time_to_resolution_hours * t.d
                  /\ t.n * 60 < 5 * t.d
              THEN {"too_soon"} ELSE {})
        \cup (IF m.volume < min_volume THEN {"volume"} ELSE {})
        \cup (IF m.liquidity < min_liquidity THEN {"liquidity"} ELSE {})
        \cup (IF m.category \in {"sports", "Sports"} THEN {"category"} ELSE {})
        \cup (IF \A k \in 1..Len(m.outcomes) :
                     \/ RLt(m.outcomes[k], min_price)
                     \/ RLt(max_price, m.outcomes[k])
              THEN {"price"} ELSE {})

\* the fixed order of the checks
CheckOrder ==
    <<"ended", "too_far", "too_soon", "volume", "liquidity", "category", "price">>

\* C23: filter_market fails with the reason of the first check, in the
\* order resolution window (ended, beyond the maximum, under 5 minutes),
\* volume, liquidity, category, price, that fails, and passes only when
\* none fails
C23_FilterOrder ==
    fn.name = "filter_market" =>
        LET failing == FailingChecks(fn.market)
        IN  /\ fn.result.passed <=> failing = {}
            /\ ~fn.result.passed =>
                   \E k \in 1..Len(CheckOrder) :
                       /\ fn.result.reason = CheckOrder[k]
                       /\ CheckOrder[k] \in failing
                       /\ \A j \in 1..(k - 1) : CheckOrder[j] \notin failing

C23_Witness ==
    /\ fn.name = "filter_market" /\ fn.result.reason = "liquidity"
    /\ FailingChecks(fn.market) = {"liquidity", "category", "price"}

\* C24: the price check passes exactly when some outcome's price lies in
\* [min_price, max_price], bounds included
C24_PriceRange ==
    fn.name = "check_price_range" =>
        (fn.result.passed <=>
            \E k \in 1..Len(fn.outcomes) :
                RLe(min_price, fn.outcomes[k]) /\ RLe(fn.outcomes[k], max_price))

C24_Witness ==
    /\ fn.name = "check_price_range" /\ fn.result.passed
    /\ fn.outcomes = <<R(1, 100), R(95, 100)>>

\* the sizes of the suggestions before the k-th whose Buy returned filled or
\* pending, summed
RECURSIVE PlacedBefore(_, _)
PlacedBefore(r, k) ==
    IF k <= 1 THEN Zero
    ELSE RAdd(PlacedBefore(r, k - 1),
              IF r.items[k - 1].what = "placed" THEN r.gated[k - 1].size
              ELSE Zero)

\* C25: in a Discovery run the balance given to should_trade for the k-th
\* suggestion is the balance read before the loop less the sizes of the
\* earlier suggestions whose Buy returned filled or pending, whatever the
\* stored wallet has become meanwhile
C25_RunningBalance ==
    run.kind = "discovery" =>
        \A k \in 1..Len(run.gated) :
            run.gated[k].balance = RSub(run.read, PlacedBefore(run, k))

C25_Witness ==
    /\ run.kind = "discovery" /\ run.mode = "fake"
    /\ Len(run.gated) = 2 /\ Len(run.items) = 2
    /\ run.items[1].what = "placed"
    /\ run.gated[2].balance = RSub(run.read, run.gated[1].size)
    /\ wallet # run.gated[2].balance

\* C26: in paper mode the open positions never number more than
\* max_positions, Discovery runs being gated by can_trade
C26_MaxPositions ==
    Cardinality(get_open_positions("fake")) <= max_positions

\* what the log says the stored balance is, from a starting balance: less
\* the amount of every buy, plus the amount of every sell
RECURSIVE LogBalance(_, _)
LogBalance(balance, log) ==
    IF log = <<>> THEN balance
    ELSE LET tx == log[Len(log)]
             before == LogBalance(balance, SubSeq(log, 1, Len(log) - 1))
         IN  IF tx.type = "buy" THEN RSub(before, tx.amount)
             ELSE IF tx.type = "sell" THEN RAdd(before, tx.amount)
             ELSE before

\* C27: while no paper Buy or Sell is in progress the stored wallet is the
\* initial balance less the buys of the log plus the sells of the log,
\* store faults included
C27_WalletMatchesLog ==
    Quiet => wallet = LogBalance(RatOf(initial_balance), transactions)

\* the sell transactions of the log that refer to one position
SellsOf(position_id) ==
    {k \in 1..Len(transactions) :
        /\ transactions[k].type = "sell"
        /\ transactions[k].reference_id.position_id = position_id}

\* C28: no paper position is sold twice: the log holds at most one sell
\* transaction, each appended after its credit of the wallet, for any
\* position id
C28_SoldOnce ==
    \A k \in 1..Len(transactions) :
        transactions[k].type = "sell" =>
            Cardinality(SellsOf(transactions[k].reference_id.position_id)) <= 1

C30_RunNeverEnables ==
    (run.kind # "none" /\ hist.toggle = NoToggle) =>
        (wf[RunKey].enabled => run.before.exists /\ run.before.enabled)

====
